---- MODULE Spec2Model ----
(***************************************************************************)
(* A model of scripts/convert_dicom.py: the depth-limited file discovery,  *)
(* the patient-folder resolution, the per-file conversion (decode, mkdir,  *)
(* directory listing, rescaling, save) and the thread-pool orchestration.  *)
(***************************************************************************)
EXTENDS Integers, Sequences, FiniteSets, TLC

(***************************************************************************)
(* Bounds of the model.                                                    *)
(***************************************************************************)
MaxFiles == 2
MaxThreads == 2

(***************************************************************************)
(* Program constants.                                                      *)
(***************************************************************************)
DefaultDepth == 3
DefaultLevelsUp == 2

VARIABLES
    tree,          \* input directory tree: relative path |-> "dir" | "file" | "other"
    dir_order,     \* the order in which iterdir() enumerates names
    fate,          \* per input file name: what the decoder / filesystem does with it
    input_path,    \* resolved input root (sequence of path components)
    num_threads,   \* max_workers of the ThreadPoolExecutor
    out_dirs,      \* directories existing below (and including) the output root
    out_files,     \* files existing below the output root: [dir, stem, ext]
    out_dirs0,     \* out_dirs as found when convert_dicom was called
    out_files0,    \* out_files as found when convert_dicom was called
    pc,            \* position of convert_dicom (the main thread)
    dicom_files,   \* list returned by find_dicom_files
    call,          \* one frame per submitted convert_dicom_to_jpeg call
    results,       \* list(executor.map(...)) as collected so far
    printed,       \* lines printed so far
    find_depth,    \* find_dicom_files: the depth argument
    patient_path,  \* get_patient_folder: the dicom_path argument
    patient_levels,\* get_patient_folder: the levels_up argument
    patient_folder,\* get_patient_folder: what the call did
    pixel_array,   \* dataset.pixel_array: the decoded pixel values
    dtype,         \* the numpy dtype of pixel_array
    rescaled       \* pixel_array after lines 68-69

\* arguments and results of the functions when they are run on their own
fnvars == <<find_depth, patient_path, patient_levels, patient_folder, pixel_array, dtype, rescaled>>

\* the state of a convert_dicom run, but for pc, tree, dir_order and dicom_files
runvars == <<fate, input_path, num_threads, out_dirs, out_files, out_dirs0, out_files0,
             call, results, printed>>

vars == <<tree, dir_order, fate, input_path, num_threads, out_dirs, out_files,
          out_dirs0, out_files0, pc, dicom_files, call, results, printed, fnvars>>

(***************************************************************************)
(* Paths (pathlib).  A path is the sequence of its components; the anchor  *)
(* ("/" or none) is not a component and has the empty name.                *)
(***************************************************************************)
Name(p) == IF p = <<>> THEN "" ELSE p[Len(p)]

Parents(p) == [k \in 1..Len(p) |-> SubSeq(p, 1, Len(p) - k)]

get_patient_folder_parent(dicom_path, levels_up) ==
    IF levels_up = 0 \/ levels_up - 1 >= Len(dicom_path)
    THEN [ok |-> FALSE, name |-> ""]
    ELSE [ok |-> TRUE, name |-> Name(Parents(dicom_path)[levels_up])]

\* dicom_path.parents[levels_up].name; an index past the last parent raises IndexError
get_patient_folder(dicom_path, levels_up) ==
    IF levels_up >= Len(dicom_path)
    THEN [ok |-> FALSE, name |-> ""]
    ELSE [ok |-> TRUE, name |-> Name(Parents(dicom_path)[levels_up + 1])]

(***************************************************************************)
(* find_dicom_files                                                        *)
(***************************************************************************)
is_file(p) == p \in DOMAIN tree /\ tree[p] = "file"

is_dir(p) == p \in DOMAIN tree /\ tree[p] = "dir"

\* input_path.iterdir(): the entries of directory d, in enumeration order
iterdir(d) ==
    LET kids == [k \in 1..Len(dir_order) |-> Append(d, dir_order[k])]
    IN  SelectSeq(kids, LAMBDA p : p \in DOMAIN tree)

RECURSIVE find_dicom_files(_, _)
RECURSIVE find_in_subdirs(_, _)

find_dicom_files_anyentry(d, depth) ==
    IF depth = 0
    THEN iterdir(d)
    ELSE find_in_subdirs(iterdir(d), depth)

find_dicom_files(d, depth) ==
    IF depth = 0
    THEN SelectSeq(iterdir(d), is_file)
    ELSE find_in_subdirs(iterdir(d), depth)

\* the loop of lines 26-28 over the entries still to visit
find_in_subdirs(entries, depth) ==
    IF entries = <<>>
    THEN <<>>
    ELSE (IF is_dir(Head(entries))
          THEN find_dicom_files(Head(entries), depth - 1)
          ELSE <<>>) \o find_in_subdirs(Tail(entries), depth)

(***************************************************************************)
(* convert_dicom_to_jpeg                                                   *)
(***************************************************************************)
Fates == {"decode_error", "no_pixel", "mkdir_fail", "write_fail", "ok"}

DecodeFails(f) == fate[Name(f)] = "decode_error"

HasPixelData_always(f) == TRUE

HasPixelData(f) == fate[Name(f)] \notin {"decode_error", "no_pixel"}

MkdirFails(f) == fate[Name(f)] = "mkdir_fail"

SaveFails(f) == fate[Name(f)] = "write_fail"

NoPath == <<>>

NoFile == [dir |-> <<>>, stem |-> "", ext |-> ""]

NoResult == [kind |-> "none", path |-> NoPath, e |-> ""]

NewFrame == [pc |-> "new", patient_output_dir |-> NoPath, new_filename |-> NoFile,
             ret |-> NoResult, runs |-> 0]

\* the path of an output file as it appears in messages
PathOf(file) == file.dir \o <<file.stem \o "." \o file.ext>>

Saved(file) == [kind |-> "saved", path |-> PathOf(file), e |-> ""]

Skipping(f) == [kind |-> "skip", path |-> f, e |-> "No Pixel Data Found"]

ErrorResult_uncaught(f, e) == [kind |-> "raise", path |-> NoPath, e |-> e]

\* except Exception as e: return the error message
ErrorResult(f, e) == [kind |-> "error", path |-> f, e |-> e]

DigitStr == <<"0", "1", "2", "3", "4", "5", "6", "7", "8", "9">>

RECURSIVE Decimal(_)
Decimal(n) == IF n < 10 THEN DigitStr[n + 1] ELSE Decimal(n \div 10) \o DigitStr[(n % 10) + 1]

\* f"{n:02d}"
Format02d(n) == IF n < 10 THEN "0" \o DigitStr[n + 1] ELSE Decimal(n)

\* patient_output_dir.glob("*.jpg")
glob_jpg(dir) == {x \in out_files : x.dir = dir /\ x.ext = "jpg"}

new_filename_from_one(dir, existing_files) ==
    [dir |-> dir, stem |-> Format02d(Cardinality(existing_files) + 1), ext |-> "jpg"]

\* patient_output_dir / f"{len(existing_files):02d}.jpg"
new_filename_of(dir, existing_files) ==
    [dir |-> dir, stem |-> Format02d(Cardinality(existing_files)), ext |-> "jpg"]

\* mkdir(parents=True, exist_ok=True): the directory and its missing ancestors
mkdir_parents(dir) == {SubSeq(dir, 1, k) : k \in 0..Len(dir)}

img_save_exclusive(files, target, fails) ==
    IF fails \/ target \in files
    THEN [ok |-> FALSE, files |-> files]
    ELSE [ok |-> TRUE, files |-> files \cup {target}]

\* img.save(new_filename): creates the file or replaces the one of that name
img_save(files, target, fails) ==
    IF fails
    THEN [ok |-> FALSE, files |-> files]
    ELSE [ok |-> TRUE, files |-> files \cup {target}]

Return(i, r) == call' = [call EXCEPT ![i].pc = "done", ![i].ret = r]

\* lines 49-56: dcmread, the PixelData test, get_patient_folder
Dcmread(i) ==
    /\ pc \in {"submit", "collect"}
    /\ i \in DOMAIN call
    /\ call[i].pc = "dcmread"
    /\ LET f == dicom_files[i]
           g == get_patient_folder(f, DefaultLevelsUp)
       IN  IF DecodeFails(f)
           THEN Return(i, ErrorResult(f, "InvalidDicomError"))
           ELSE IF ~HasPixelData(f)
           THEN Return(i, Skipping(f))
           ELSE IF ~g.ok
           THEN Return(i, ErrorResult(f, "IndexError"))
           ELSE call' = [call EXCEPT ![i].pc = "mkdir",
                                     ![i].patient_output_dir =
                                         IF g.name = "" THEN <<>> ELSE <<g.name>>]
    /\ UNCHANGED <<fnvars, tree, dir_order, fate, input_path, num_threads, out_dirs, out_files,
                   out_dirs0, out_files0, pc, dicom_files, results, printed>>

\* lines 59-60: patient_output_dir.mkdir(parents=True, exist_ok=True)
Mkdir(i) ==
    /\ pc \in {"submit", "collect"}
    /\ i \in DOMAIN call
    /\ call[i].pc = "mkdir"
    /\ LET f == dicom_files[i]
       IN  IF MkdirFails(f)
           THEN /\ Return(i, ErrorResult(f, "OSError"))
                /\ UNCHANGED out_dirs
           ELSE /\ out_dirs' = out_dirs \cup mkdir_parents(call[i].patient_output_dir)
                /\ call' = [call EXCEPT ![i].pc = "glob"]
    /\ UNCHANGED <<fnvars, tree, dir_order, fate, input_path, num_threads, out_files,
                   out_dirs0, out_files0, pc, dicom_files, results, printed>>

\* lines 63-64: list the folder's *.jpg files and pick the new file name
Glob(i) ==
    /\ pc \in {"submit", "collect"}
    /\ i \in DOMAIN call
    /\ call[i].pc = "glob"
    /\ LET dir == call[i].patient_output_dir
       IN  call' = [call EXCEPT ![i].pc = "save",
                                ![i].new_filename = new_filename_of(dir, glob_jpg(dir))]
    /\ UNCHANGED <<fnvars, tree, dir_order, fate, input_path, num_threads, out_dirs, out_files,
                   out_dirs0, out_files0, pc, dicom_files, results, printed>>

\* lines 67-75: read the pixel array, rescale, save, return the success message
Save(i) ==
    /\ pc \in {"submit", "collect"}
    /\ i \in DOMAIN call
    /\ call[i].pc = "save"
    /\ LET f == dicom_files[i]
           s == img_save(out_files, call[i].new_filename, SaveFails(f))
       IN  IF fate[Name(f)] = "no_pixel"
           THEN /\ Return(i, ErrorResult(f, "AttributeError"))
                /\ UNCHANGED out_files
           ELSE IF ~s.ok
           THEN /\ Return(i, ErrorResult(f, "OSError"))
                /\ UNCHANGED out_files
           ELSE /\ out_files' = s.files
                /\ Return(i, Saved(call[i].new_filename))
    /\ UNCHANGED <<fnvars, tree, dir_order, fate, input_path, num_threads, out_dirs,
                   out_dirs0, out_files0, pc, dicom_files, results, printed>>

(***************************************************************************)
(* convert_dicom                                                           *)
(***************************************************************************)
Line(kind) == [kind |-> kind, path |-> NoPath, e |-> ""]

\* lines 89-100: find the files, print the header (or the "no files" notice)
Discover ==
    /\ pc = "start"
    /\ LET found == find_dicom_files(<<>>, DefaultDepth)
           files == [k \in 1..Len(found) |-> input_path \o found[k]]
       IN  /\ dicom_files' = files
           /\ IF files = <<>>
              THEN /\ printed' = Append(printed, Line("no_files"))
                   /\ pc' = "returned"
                   /\ call' = <<>>
              ELSE /\ printed' = Append(printed, Line("header"))
                   /\ pc' = "submit"
                   /\ call' = [k \in 1..Len(files) |-> NewFrame]
    /\ UNCHANGED <<fnvars, tree, dir_order, fate, input_path, num_threads, out_dirs, out_files,
                   out_dirs0, out_files0, results>>

\* executor.map submits one call per file, in list order
Submit ==
    /\ pc = "submit"
    /\ LET new == {i \in DOMAIN call : call[i].pc = "new"}
       IN  IF new = {}
           THEN /\ pc' = "collect"
                /\ UNCHANGED call
           ELSE /\ LET i == CHOOSE j \in new : \A k \in new : j <= k
                   IN  call' = [call EXCEPT ![i].pc = "queued"]
                /\ UNCHANGED pc
    /\ UNCHANGED <<fnvars, tree, dir_order, fate, input_path, num_threads, out_dirs, out_files,
                   out_dirs0, out_files0, dicom_files, results, printed>>

Running == {i \in DOMAIN call : call[i].pc \in {"dcmread", "mkdir", "glob", "save"}}

\* a free worker thread takes the oldest queued call
Start(i) ==
    /\ pc \in {"submit", "collect"}
    /\ i \in DOMAIN call
    /\ call[i].pc = "queued"
    /\ \A j \in DOMAIN call : j < i => call[j].pc # "queued"
    /\ Cardinality(Running) < num_threads
    /\ call' = [call EXCEPT ![i].pc = "dcmread", ![i].runs = @ + 1]
    /\ UNCHANGED <<fnvars, tree, dir_order, fate, input_path, num_threads, out_dirs, out_files,
                   out_dirs0, out_files0, pc, dicom_files, results, printed>>

NextResultIndex_unreversed == Len(dicom_files) - Len(results)

\* the result iterator of executor.map yields the futures in submission order
NextResultIndex == Len(results) + 1

\* list(...) takes the next result once its call has finished; a call that
\* raised re-raises here and convert_dicom is left
Collect ==
    /\ pc = "collect"
    /\ Len(results) < Len(dicom_files)
    /\ LET k == NextResultIndex
       IN  /\ call[k].pc = "done"
           /\ IF call[k].ret.kind = "raise"
              THEN /\ pc' = "aborted"
                   /\ UNCHANGED results
              ELSE /\ results' = Append(results, call[k].ret)
                   /\ pc' = IF Len(results) + 1 = Len(dicom_files) THEN "print" ELSE "collect"
    /\ UNCHANGED <<fnvars, tree, dir_order, fate, input_path, num_threads, out_dirs, out_files,
                   out_dirs0, out_files0, dicom_files, call, printed>>

\* lines 109-113: print every non-empty result, then the completion notice
PrintSummary ==
    /\ pc = "print"
    /\ LET k == Len(printed)
       IN  IF k <= Len(results)
           THEN /\ printed' = IF results[k].path # <<>> \/ results[k].e # ""
                              THEN Append(printed, results[k])
                              ELSE Append(printed, Line("blank"))
                /\ UNCHANGED pc
           ELSE /\ printed' = Append(printed, Line("complete"))
                /\ pc' = "done"
    /\ UNCHANGED <<fnvars, tree, dir_order, fate, input_path, num_threads, out_dirs, out_files,
                   out_dirs0, out_files0, dicom_files, call, results>>

NoCall == [ok |-> FALSE, name |-> "<not called>"]

\* the function arguments while convert_dicom runs: its defaults
FnIdle ==
    /\ find_depth = DefaultDepth
    /\ patient_path = <<>>
    /\ patient_levels = DefaultLevelsUp
    /\ patient_folder = NoCall
    /\ pixel_array = <<>>
    /\ dtype = "uint16"
    /\ rescaled = <<>>

(***************************************************************************)
(* Initial states: an input tree with up to MaxFiles files at depth 3      *)
(* (plus entries at other depths), an output tree left by an earlier run.  *)
(***************************************************************************)
Patients == {"patientA", "patientB"}

Img(i) == "img" \o Decimal(i)

PreStems == {"00", "01", "x"}

InputTree(n, pat) ==
    LET used == {pat[i] : i \in 1..n}
        ds == UNION {{<<P>>, <<P, "study">>, <<P, "study", "series">>,
                      <<P, "study", "series", "thumbs">>} : P \in used}
        fs == {<<"README">>}
              \cup {<<P, "notes">> : P \in used}
              \cup {<<P, "study", "series", "thumbs", "t1">> : P \in used}
              \cup {<<pat[i], "study", "series", Img(i)>> : i \in 1..n}
    IN  [p \in ds \cup fs |-> IF p \in ds THEN "dir" ELSE "file"]

NameOrder(n) ==
    <<"README", "notes", "thumbs", "t1", "study", "series", "patientB", "patientA">>
    \o [i \in 1..n |-> Img(i)]

\* the output trees the run may start from
OutTrees ==
    {[dirs |-> {}, files |-> {}], [dirs |-> {<<>>}, files |-> {}]}
    \cup {[dirs |-> {<<>>, <<"patientA">>},
           files |-> {[dir |-> <<"patientA">>, stem |-> s, ext |-> "jpg"] : s \in S}]
          : S \in SUBSET PreStems}

InitWith(Sizes, Folders, Trees) ==
    \E n \in Sizes :
      \E pat \in [1..n -> Folders], ft \in [1..n -> Fates], o \in Trees :
        /\ tree = InputTree(n, pat)
        /\ dir_order = NameOrder(n)
        /\ fate = [nm \in {Img(i) : i \in 1..n} |-> ft[CHOOSE i \in 1..n : Img(i) = nm]]
        /\ input_path = <<"data">>
        /\ num_threads \in 1..MaxThreads
        /\ out_dirs = o.dirs
        /\ out_files = o.files
        /\ out_dirs0 = o.dirs
        /\ out_files0 = o.files
        /\ pc = "start"
        /\ dicom_files = <<>>
        /\ call = <<>>
        /\ results = <<>>
        /\ printed = <<>>
        /\ FnIdle

Init == InitWith(0..MaxFiles, Patients, OutTrees)

\* every pattern of per-file failures, for one patient and a fresh output root
FairInit == InitWith(1..MaxFiles, {"patientA"}, {[dirs |-> {}, files |-> {}]})

Next ==
    \/ Discover
    \/ Submit
    \/ \E i \in 1..MaxFiles : Start(i)
    \/ \E i \in 1..MaxFiles : Dcmread(i)
    \/ \E i \in 1..MaxFiles : Mkdir(i)
    \/ \E i \in 1..MaxFiles : Glob(i)
    \/ \E i \in 1..MaxFiles : Save(i)
    \/ Collect
    \/ PrintSummary

Spec == Init /\ [][Next]_vars

Fairness ==
    /\ WF_vars(Discover \/ Submit \/ Collect \/ PrintSummary)
    /\ \A i \in 1..MaxFiles :
         WF_vars(Start(i) \/ Dcmread(i) \/ Mkdir(i) \/ Glob(i) \/ Save(i))

\* the main thread and every worker thread keep being scheduled
FairSpec == FairInit /\ [][Next]_vars /\ Fairness

(***************************************************************************)
(* Properties of the batch run.                                            *)
(***************************************************************************)
Items == DOMAIN call

FateOf(i) == fate[Name(dicom_files[i])]

JpgIn(files, dir) == {x \in files : x.dir = dir /\ x.ext = "jpg"}

SavedIn(dir) == {i \in Items : call[i].ret.kind = "saved" /\ call[i].new_filename.dir = dir}

TwoDigit == <<"00", "01", "02", "03", "04", "05", "06", "07", "08", "09", "10", "11">>

\* C1: two calls that meet no decode or I/O failure and computed the same
\* output path (they listed the folder before either saved) both return the
\* success message for that path, the second save replacing the first file:
\* the folder gains fewer .jpg files than there are success results for it.
C1_RaceLosesFile ==
    \A i, j \in Items :
        (/\ i # j
         /\ call[i].pc = "done" /\ call[j].pc = "done"
         /\ FateOf(i) = "ok" /\ FateOf(j) = "ok"
         /\ call[i].new_filename = call[j].new_filename)
        => /\ call[i].ret = Saved(call[i].new_filename)
           /\ call[j].ret = call[i].ret
           /\ call[i].new_filename \in out_files
           /\ LET dir == call[i].new_filename.dir
              IN  Cardinality(JpgIn(out_files, dir))
                    < Cardinality(JpgIn(out_files0, dir)) + Cardinality(SavedIn(dir))

\* a finished run with two workers or more in which two files of one new
\* patient folder were both reported saved under the same name
C1_Witness ==
    /\ pc = "done"
    /\ num_threads >= 2
    /\ \E i, j \in Items :
         /\ i < j
         /\ results[i].kind = "saved"
         /\ results[j] = results[i]
         /\ call[i].patient_output_dir \notin out_dirs0
         /\ Cardinality(JpgIn(out_files, call[i].patient_output_dir))
              < Cardinality(SavedIn(call[i].patient_output_dir))

\* C2: in a serial run (one worker) into a patient folder that did not exist,
\* the k-th successful call for that folder wrote the file numbered k-1 with
\* two digits, and the folder holds exactly the files 00.jpg .. (N-1).jpg.
C2_SerialNumbering ==
    num_threads = 1 =>
      \A P \in Patients :
        <<P>> \notin out_dirs0 =>
          LET ok == SavedIn(<<P>>)
              rank(i) == Cardinality({j \in ok : j < i})
          IN  /\ \A i \in ok : call[i].ret.path = <<P, TwoDigit[rank(i) + 1] \o ".jpg">>
              /\ {x \in out_files : x.dir = <<P>>}
                   = {[dir |-> <<P>>, stem |-> TwoDigit[k], ext |-> "jpg"]
                        : k \in 1..Cardinality(ok)}

C2_Witness ==
    /\ pc = "done"
    /\ num_threads = 1
    /\ \E P \in Patients :
         /\ <<P>> \notin out_dirs0
         /\ Cardinality(SavedIn(<<P>>)) = Len(dicom_files)
         /\ Len(dicom_files) >= 2

Failing == {"decode_error", "mkdir_fail", "write_fail"}

BatchReported ==
    /\ pc = "done"
    /\ Len(results) = Len(dicom_files)
    /\ printed[Len(printed)] = Line("complete")
    /\ \A i \in DOMAIN dicom_files :
         /\ FateOf(i) \in Failing =>
              /\ results[i].kind = "error"
              /\ results[i].path = dicom_files[i]
         /\ FateOf(i) = "ok" =>
              /\ results[i].kind = "saved"
              /\ call[i].new_filename \in out_files
         /\ printed[i + 1] = results[i]

\* C3: whatever files fail, once the batch is submitted it runs to the end:
\* every failing file yields an error result naming its source path, every
\* other file is converted, and the completion notice is printed.
C3_BatchCompletes == (pc = "submit") ~> BatchReported

C3_Witness ==
    /\ BatchReported
    /\ \E i, j \in Items :
         /\ i < j
         /\ results[i].kind = "error"
         /\ results[j].kind = "saved"

\* C4: the results are collected and printed in the order of the file list,
\* one per file, each the result of the call on that file, and no file is
\* converted twice.
C4_ResultsInOrder ==
    /\ Len(results) <= Len(dicom_files)
    /\ \A i \in 1..Len(results) :
         /\ call[i].pc = "done"
         /\ results[i] = call[i].ret
         /\ results[i].kind \in {"skip", "error"} => results[i].path = dicom_files[i]
         /\ results[i].kind = "saved" => results[i].path = PathOf(call[i].new_filename)
    /\ \A i \in Items : call[i].runs <= 1
    /\ pc \in {"print", "done"} =>
         /\ Len(results) = Len(dicom_files)
         /\ \A i \in Items : call[i].runs = 1
    /\ \A k \in 2..Len(printed) : k - 1 <= Len(results) => printed[k] = results[k - 1]

\* the second call has finished before the first, which is about to save:
\* the first result is still awaited and the second is not taken
C4_Witness ==
    /\ pc = "collect"
    /\ Len(dicom_files) >= 2
    /\ results = <<>>
    /\ call[2].pc = "done"
    /\ call[2].ret.kind = "saved"
    /\ call[1].pc = "save"

\* C6: no step of a call on a file without pixel data changes the output
\* tree, and the call returns the skip result naming the source path.
C6_SkipLeavesOutput ==
    [][\A i \in Items :
         (/\ i \in DOMAIN call'
          /\ FateOf(i) = "no_pixel"
          /\ call'[i] # call[i])
         => /\ out_dirs' = out_dirs
            /\ out_files' = out_files
            /\ call'[i].pc = "done" => call'[i].ret = Skipping(dicom_files[i])]_vars

C6_Witness ==
    /\ pc = "done"
    /\ out_dirs0 = {}
    /\ out_dirs = {}
    /\ out_files = {}
    /\ \E i \in Items :
         /\ FateOf(i) = "no_pixel"
         /\ results[i].kind = "skip"
         /\ results[i].path = dicom_files[i]

\* C8: every discovered file is input_root/P/S/R/file, its patient folder
\* is P, a saved file is output_root/P/NN.jpg, and a single file converted
\* into a folder that did not exist is output_root/P/00.jpg.
C8_PatientIsTopFolder ==
    \A i \in Items :
        LET f == dicom_files[i]
            P == f[Len(input_path) + 1]
        IN  /\ Len(f) = Len(input_path) + 4
            /\ SubSeq(f, 1, Len(input_path)) = input_path
            /\ is_dir(<<P>>)
            /\ is_file(SubSeq(f, Len(input_path) + 1, Len(f)))
            /\ call[i].pc \in {"mkdir", "glob", "save"} => call[i].patient_output_dir = <<P>>
            /\ call[i].ret.kind = "saved" =>
                 /\ call[i].patient_output_dir = <<P>>
                 /\ \E k \in 1..Len(TwoDigit) : call[i].ret.path = <<P, TwoDigit[k] \o ".jpg">>
                 /\ [dir |-> <<P>>, stem |-> call[i].new_filename.stem, ext |-> "jpg"] \in out_files
                 /\ (Len(dicom_files) = 1 /\ <<P>> \notin out_dirs0)
                      => call[i].ret.path = <<P, "00.jpg">>

C8_Witness ==
    /\ pc = "done"
    /\ Len(dicom_files) = 1
    /\ out_dirs0 = {}
    /\ results[1].kind = "saved"
    /\ results[1].path = <<"patientA", "00.jpg">>
    /\ [dir |-> <<"patientA">>, stem |-> "00", ext |-> "jpg"] \in out_files

\* C10: in a serial run every successful call adds one .jpg file to its
\* folder and replaces none that was there before the run.
C10_SerialNeverOverwrites ==
    num_threads = 1 =>
      \A dir \in out_dirs :
        /\ Cardinality(JpgIn(out_files, dir))
             = Cardinality(JpgIn(out_files0, dir)) + Cardinality(SavedIn(dir))
        /\ \A i \in SavedIn(dir) : call[i].new_filename \notin out_files0

(***************************************************************************)
(* find_dicom_files on its own: a directory tree is built entry by entry   *)
(* and then searched at some depth.                                        *)
(***************************************************************************)
MaxEntries == 5
MaxTreeLevels == 3
MaxFindDepth == 2

EntryNames == {"a", "b"}

EntryKinds == {"dir", "file", "other"}

\* the batch state while a function is run on its own
RunIdle ==
    /\ fate = <<>>
    /\ input_path = <<>>
    /\ num_threads = 1
    /\ out_dirs = {}
    /\ out_files = {}
    /\ out_dirs0 = {}
    /\ out_files0 = {}
    /\ call = <<>>
    /\ results = <<>>
    /\ printed = <<>>

FindInit ==
    /\ tree = <<>>
    /\ dir_order \in {<<"a", "b">>, <<"b", "a">>}
    /\ pc = "build"
    /\ dicom_files = <<>>
    /\ find_depth = 0
    /\ patient_path = <<>>
    /\ patient_levels = DefaultLevelsUp
    /\ patient_folder = NoCall
    /\ pixel_array = <<>>
    /\ dtype = "uint16"
    /\ rescaled = <<>>
    /\ RunIdle

\* an entry (directory, regular file, or something else such as a socket or
\* a dangling link) appears in an existing directory
AddEntry(parent, name, kind) ==
    /\ pc = "build"
    /\ parent = <<>> \/ is_dir(parent)
    /\ Len(parent) <= MaxTreeLevels
    /\ Append(parent, name) \notin DOMAIN tree
    /\ Cardinality(DOMAIN tree) < MaxEntries
    /\ tree' = [q \in DOMAIN tree \cup {Append(parent, name)} |->
                  IF q \in DOMAIN tree THEN tree[q] ELSE kind]
    /\ UNCHANGED <<dir_order, pc, dicom_files, fnvars, runvars>>

\* find_dicom_files(root, D)
Find(D) ==
    /\ pc = "build"
    /\ dicom_files' = find_dicom_files(<<>>, D)
    /\ find_depth' = D
    /\ pc' = "found"
    /\ UNCHANGED <<tree, dir_order, patient_path, patient_levels, patient_folder,
                   pixel_array, dtype, rescaled, runvars>>

FindNext ==
    \/ \E parent \in {<<>>} \cup DOMAIN tree, name \in EntryNames, kind \in EntryKinds :
         AddEntry(parent, name, kind)
    \/ \E D \in 0..MaxFindDepth : Find(D)

SpecFind == FindInit /\ [][FindNext]_vars

\* the regular files reached from the root through exactly D directories
FilesAtDepth(D) ==
    {q \in DOMAIN tree :
        /\ Len(q) = D + 1
        /\ tree[q] = "file"
        /\ \A k \in 1..D : tree[SubSeq(q, 1, k)] = "dir"}

\* C5: find_dicom_files(root, D) lists exactly the regular files whose
\* parent is reached from root through D directories, each of them once.
C5_ExactDepth ==
    pc = "found" =>
      /\ {dicom_files[k] : k \in DOMAIN dicom_files} = FilesAtDepth(find_depth)
      /\ \A k, l \in DOMAIN dicom_files : k # l => dicom_files[k] # dicom_files[l]

\* a search at depth 1 that finds a file, in a tree that also has a regular
\* file above and below that level, and a non-directory at the first level
C5_Witness ==
    /\ pc = "found"
    /\ find_depth = 1
    /\ Len(dicom_files) >= 1
    /\ \E q \in DOMAIN tree : Len(q) = 1 /\ tree[q] # "dir"
    /\ \E q \in DOMAIN tree : Len(q) = 3 /\ tree[q] = "file"

(***************************************************************************)
(* get_patient_folder on its own.                                          *)
(***************************************************************************)
MaxPathLen == 4
MaxLevelsUp == 3

PathsOfLen(n) == [1..n -> EntryNames]

PatientInit ==
    /\ \E n \in 0..MaxPathLen : patient_path \in PathsOfLen(n)
    /\ patient_levels \in 0..MaxLevelsUp
    /\ patient_folder = NoCall
    /\ pc = "resolve"
    /\ tree = <<>>
    /\ dir_order = <<>>
    /\ dicom_files = <<>>
    /\ find_depth = DefaultDepth
    /\ pixel_array = <<>>
    /\ dtype = "uint16"
    /\ rescaled = <<>>
    /\ RunIdle

\* get_patient_folder(dicom_path, levels_up)
Resolve ==
    /\ pc = "resolve"
    /\ patient_folder' = get_patient_folder(patient_path, patient_levels)
    /\ pc' = "resolved"
    /\ UNCHANGED <<tree, dir_order, dicom_files, find_depth, patient_path, patient_levels,
                   pixel_array, dtype, rescaled, runvars>>

PatientNext == Resolve

SpecPatient == PatientInit /\ [][PatientNext]_vars

\* C7: get_patient_folder returns the name of the directory levels_up above
\* the file's parent when the path has that directory, and raises otherwise;
\* it never returns the empty name.
C7_NameOrError ==
    pc = "resolved" =>
      IF Len(patient_path) >= patient_levels + 2
      THEN /\ patient_folder.ok
           /\ patient_folder.name = patient_path[Len(patient_path) - 1 - patient_levels]
      ELSE ~patient_folder.ok

(***************************************************************************)
(* The rescaling of lines 68-69 on its own.  The arithmetic is numpy's:    *)
(* the array and its min()/max() have the array's 16-bit integer type, so  *)
(* the two subtractions wrap; the division and the product are in floating *)
(* point (taken here as exact, which differs from the rounded value by     *)
(* less than one unit and in no case by order); astype(np.uint8) truncates *)
(* toward zero, and of a value outside 0..255 it is the C conversion,      *)
(* which the build either wraps modulo 256 or saturates.                   *)
(***************************************************************************)
MaxPixels == 4

IntBits == 16

PixelValues(t) ==
    IF t = "int16"
    THEN {-32768, -20000, 0, 5000, 20000, 32767}
    ELSE {0, 1000, 40000, 65535}

Wrap(x, t) ==
    LET m == 2 ^ IntBits
        u == x % m
    IN  IF t = "int16" /\ u >= m \div 2 THEN u - m ELSE u

Abs(x) == IF x < 0 THEN -x ELSE x

\* truncation toward zero of a / b
Trunc(a, b) ==
    IF (a >= 0) = (b > 0) THEN Abs(a) \div Abs(b) ELSE -(Abs(a) \div Abs(b))

SeqMin(a) == CHOOSE x \in {a[k] : k \in DOMAIN a} : \A k \in DOMAIN a : x <= a[k]

SeqMax(a) == CHOOSE x \in {a[k] : k \in DOMAIN a} : \A k \in DOMAIN a : x >= a[k]

\* astype(np.uint8) of the float whose truncation is v
astype_uint8(v, cast) ==
    IF v \in 0..255 THEN v
    ELSE IF cast = "wrap" THEN v % 256
    ELSE IF v < 0 THEN 0 ELSE 255

\* ((pixel_array - min) / (max - min)) * 255, then astype(np.uint8)
rescale(a, t, cast) ==
    LET lo == SeqMin(a)
        hi == SeqMax(a)
        den == Wrap(hi - lo, t)
    IN  [k \in DOMAIN a |->
           IF den = 0
           THEN 0
           ELSE astype_uint8(Trunc(Wrap(a[k] - lo, t) * 255, den), cast)]

RescaleInit ==
    /\ dtype \in {"int16", "uint16"}
    /\ \E n \in 1..MaxPixels : pixel_array \in [1..n -> PixelValues(dtype)]
    /\ rescaled = <<>>
    /\ pc = "rescale"
    /\ tree = <<>>
    /\ dir_order = <<>>
    /\ dicom_files = <<>>
    /\ find_depth = DefaultDepth
    /\ patient_path = <<>>
    /\ patient_levels = DefaultLevelsUp
    /\ patient_folder = NoCall
    /\ RunIdle

Rescale(cast) ==
    /\ pc = "rescale"
    /\ rescaled' = rescale(pixel_array, dtype, cast)
    /\ pc' = "rescaled"
    /\ UNCHANGED <<tree, dir_order, dicom_files, find_depth, patient_path, patient_levels,
                   patient_folder, pixel_array, dtype, runvars>>

RescaleNext == \E cast \in {"wrap", "saturate"} : Rescale(cast)

SpecRescale == RescaleInit /\ [][RescaleNext]_vars

\* C9: when min < max, the minimum maps to 0, the maximum to 255, every
\* output is in 0..255 and the order of the pixel values is kept.
C9_MonotoneRescale ==
    (pc = "rescaled" /\ SeqMin(pixel_array) < SeqMax(pixel_array)) =>
      /\ \A k \in DOMAIN pixel_array :
           /\ rescaled[k] \in 0..255
           /\ pixel_array[k] = SeqMin(pixel_array) => rescaled[k] = 0
           /\ pixel_array[k] = SeqMax(pixel_array) => rescaled[k] = 255
      /\ \A k, l \in DOMAIN pixel_array :
           pixel_array[k] <= pixel_array[l] => rescaled[k] <= rescaled[l]

====
